---- MODULE Spec2Model ----
(***************************************************************************)
(* The automatic turn-based battle engine of rpg/battle.py over the data   *)
(* model of rpg/models.py.                                                 *)
(*                                                                         *)
(* A character is a record with the fields of models.Character.  The       *)
(* characters of a battle are addressed by their position in               *)
(* [self.player] + self.enemies: 1 is the player, e + 1 is enemy e of the  *)
(* roster.  A coefficient (a float in the source) is kept as a whole       *)
(* number of 1/CoefDen, so that int(atk * coefficient) is a truncating     *)
(* division.                                                               *)
(***************************************************************************)
EXTENDS Integers, Sequences, FiniteSets, TLC

VARIABLES
    player,        \* Battle.player
    enemies,       \* Battle.enemies (the roster, in order)
    turn_logs,     \* Battle._turn_logs
    turn_number,   \* run: local turn_number
    turn_log,      \* run: local turn_log of the turn in progress
    acting_order,  \* run: local acting_order (positions of characters)
    actor_pos,     \* run: position of the for loop in acting_order
    skill_idx,     \* run: i of the inner loop (0-based)
    pc,            \* where the control is: "init", "while", "for", "tick", "done", "unit"
    returned,      \* what the calls of run so far returned, in order: the result, and
                   \* for "turns" (self._turn_logs itself, not a copy) the number of
                   \* records it held on return
    call           \* the last direct call of a Character method (unit harness)

vars == <<player, enemies, turn_logs, turn_number, turn_log, acting_order,
          actor_pos, skill_idx, pc, returned, call>>

-----------------------------------------------------------------------------
(* Bounds of the model and constants of the program *)

MaxEnemies == 2
MaxRuns == 2
MaxAmount == 4
_MAX_TURNS == 100
StatusDuration == 3
CoefDen == 2

None == "None"

Max(a, b) == IF a >= b THEN a ELSE b
Min(a, b) == IF a <= b THEN a ELSE b

\* n / d rounded to the nearest integer, halves up, instead of truncated
TruncDiv_round_half_up(n, d) == (2 * n + d) \div (2 * d)

\* int(x) of Python for x = n / d, d > 0: truncation toward zero
TruncDiv(n, d) == IF n >= 0 THEN n \div d ELSE -((-n) \div d)

-----------------------------------------------------------------------------
(* rpg/models.py *)

Effect(effect_type, coefficient, status_name) ==
    [effect_type |-> effect_type, coefficient |-> coefficient,
     status_name |-> status_name]

Skill(name, effects) == [name |-> name, effects |-> effects]

StatusEffect(name, magnitude, duration) ==
    [name |-> name, magnitude |-> magnitude, duration |-> duration]

\* Character(...) followed by the loader's optional "hp": hp and sp start at
\* max_hp and max_sp, and the loader may set hp.
Character(name, max_hp, hp, atk, rcv, speed, action_count, skills, status_effects) ==
    [name |-> name, max_hp |-> max_hp, max_sp |-> 5, atk |-> atk, rcv |-> rcv,
     speed |-> speed, action_count |-> action_count, skills |-> skills,
     status_effects |-> status_effects, hp |-> hp, sp |-> 5]

\* is_alive that takes 0 hp for alive
is_alive_at_zero(c) == c.hp >= 0

is_alive(c) == c.hp > 0

\* take_damage without the clamp to the current hp
take_damage_unclamped(c, amount) ==
    LET actual == Max(0, amount)
    IN  [char |-> [c EXCEPT !.hp = c.hp - actual], ret |-> actual]

\* take_damage without the clamp of the amount to >= 0
take_damage_unfloored(c, amount) ==
    LET actual == Min(amount, c.hp)
    IN  [char |-> [c EXCEPT !.hp = c.hp - actual], ret |-> actual]

\* returns the character after the call and the value returned
take_damage(c, amount) ==
    LET amt == Max(0, amount)
        actual == Min(amt, c.hp)
    IN  [char |-> [c EXCEPT !.hp = c.hp - actual], ret |-> actual]

\* heal_hp without the clamp to max_hp
heal_hp_unclamped(c, amount) ==
    LET actual == Max(0, amount)
    IN  [char |-> [c EXCEPT !.hp = c.hp + actual], ret |-> actual]

\* heal_hp that costs the character one sp
heal_hp_spending_sp(c, amount) ==
    LET amt == Max(0, amount)
        actual == Min(amt, c.max_hp - c.hp)
    IN  [char |-> [c EXCEPT !.hp = c.hp + actual, !.sp = Max(0, c.sp - 1)],
         ret |-> actual]

heal_hp(c, amount) ==
    LET amt == Max(0, amount)
        actual == Min(amt, c.max_hp - c.hp)
    IN  [char |-> [c EXCEPT !.hp = c.hp + actual], ret |-> actual]

\* position of the first status effect named name, 0 when there is none
FirstNamed(ses, name) ==
    IF \E k \in 1..Len(ses) : ses[k].name = name
    THEN CHOOSE k \in 1..Len(ses) :
            /\ ses[k].name = name
            /\ \A j \in 1..(k - 1) : ses[j].name # name
    ELSE 0

\* apply_status that appends without looking for the name
apply_status_appending(c, status) ==
    [c EXCEPT !.status_effects = Append(@, status)]

\* apply_status that refreshes the magnitude of an existing entry, not its duration
apply_status_keep_duration(c, status) ==
    LET k == FirstNamed(c.status_effects, status.name)
    IN  IF k # 0
        THEN [c EXCEPT !.status_effects[k].magnitude = status.magnitude]
        ELSE [c EXCEPT !.status_effects = Append(@, status)]

apply_status(c, status) ==
    LET k == FirstNamed(c.status_effects, status.name)
    IN  IF k # 0
        THEN [c EXCEPT !.status_effects[k].magnitude = status.magnitude,
                       !.status_effects[k].duration = status.duration]
        ELSE [c EXCEPT !.status_effects = Append(@, status)]

Effect_to_dict(e) ==
    IF e.status_name # None
    THEN [effect_type |-> e.effect_type, coefficient |-> e.coefficient,
          status_name |-> e.status_name]
    ELSE [effect_type |-> e.effect_type, coefficient |-> e.coefficient]

Skill_to_dict(s) ==
    [name |-> s.name,
     effects |-> [k \in 1..Len(s.effects) |-> Effect_to_dict(s.effects[k])]]

StatusEffect_to_dict(se) ==
    [name |-> se.name, magnitude |-> se.magnitude, duration |-> se.duration]

-----------------------------------------------------------------------------
(* rpg/battle.py: private helpers.  chars is [self.player] + self.enemies. *)

Chars == <<player>> \o enemies

\* positions (in chars) of the living enemies, in roster order
_living_enemies(chars) ==
    SelectSeq([k \in 1..(Len(chars) - 1) |-> k + 1], LAMBDA p : is_alive(chars[p]))

_is_over(chars) == ~is_alive(chars[1]) \/ _living_enemies(chars) = <<>>

\* _get_target that gives the player the last living enemy of the roster
_get_target_last_living(chars, actor) ==
    IF actor = 1
    THEN LET living == _living_enemies(chars)
         IN  IF living # <<>> THEN living[Len(living)] ELSE 0
    ELSE IF is_alive(chars[1]) THEN 1 ELSE 0

\* the position of the target, 0 for None
_get_target(chars, actor) ==
    IF actor = 1
    THEN LET living == _living_enemies(chars)
         IN  IF living # <<>> THEN living[1] ELSE 0
    ELSE IF is_alive(chars[1]) THEN 1 ELSE 0

\* _apply_effect whose damage effect deals the actor what it deals the target
_apply_effect_with_recoil(chars, actor, effect, offensive_target) ==
    CASE effect.effect_type = "damage" ->
            LET amount == TruncDiv(chars[actor].atk * effect.coefficient, CoefDen)
                r == take_damage(chars[offensive_target], amount)
                hit == [chars EXCEPT ![offensive_target] = r.char]
            IN  [chars |-> [hit EXCEPT ![actor] = take_damage(hit[actor], r.ret).char],
                 result |-> [effect_type |-> effect.effect_type,
                             coefficient |-> effect.coefficient,
                             target |-> chars[offensive_target].name,
                             damage |-> r.ret]]
      [] effect.effect_type = "heal" ->
            LET amount == TruncDiv(chars[actor].rcv * effect.coefficient, CoefDen)
                r == heal_hp(chars[actor], amount)
            IN  [chars |-> [chars EXCEPT ![actor] = r.char],
                 result |-> [effect_type |-> effect.effect_type,
                             coefficient |-> effect.coefficient,
                             target |-> chars[actor].name,
                             healed |-> r.ret]]
      [] effect.effect_type = "status" ->
            LET se == StatusEffect(IF effect.status_name # None
                                   THEN effect.status_name ELSE "unknown",
                                   effect.coefficient, StatusDuration)
            IN  [chars |-> [chars EXCEPT ![offensive_target] = apply_status(@, se)],
                 result |-> [effect_type |-> effect.effect_type,
                             coefficient |-> effect.coefficient,
                             target |-> chars[offensive_target].name,
                             status_name |-> se.name,
                             magnitude |-> se.magnitude]]
      [] OTHER ->
            [chars |-> chars,
             result |-> [effect_type |-> effect.effect_type,
                         coefficient |-> effect.coefficient]]

\* returns the characters after the effect and the result dict
_apply_effect(chars, actor, effect, offensive_target) ==
    CASE effect.effect_type = "damage" ->
            LET amount == TruncDiv(chars[actor].atk * effect.coefficient, CoefDen)
                r == take_damage(chars[offensive_target], amount)
            IN  [chars |-> [chars EXCEPT ![offensive_target] = r.char],
                 result |-> [effect_type |-> effect.effect_type,
                             coefficient |-> effect.coefficient,
                             target |-> chars[offensive_target].name,
                             damage |-> r.ret]]
      [] effect.effect_type = "heal" ->
            LET amount == TruncDiv(chars[actor].rcv * effect.coefficient, CoefDen)
                r == heal_hp(chars[actor], amount)
            IN  [chars |-> [chars EXCEPT ![actor] = r.char],
                 result |-> [effect_type |-> effect.effect_type,
                             coefficient |-> effect.coefficient,
                             target |-> chars[actor].name,
                             healed |-> r.ret]]
      [] effect.effect_type = "status" ->
            LET se == StatusEffect(IF effect.status_name # None
                                   THEN effect.status_name ELSE "unknown",
                                   effect.coefficient, StatusDuration)
            IN  [chars |-> [chars EXCEPT ![offensive_target] = apply_status(@, se)],
                 result |-> [effect_type |-> effect.effect_type,
                             coefficient |-> effect.coefficient,
                             target |-> chars[offensive_target].name,
                             status_name |-> se.name,
                             magnitude |-> se.magnitude]]
      [] OTHER ->
            [chars |-> chars,
             result |-> [effect_type |-> effect.effect_type,
                         coefficient |-> effect.coefficient]]

\* the for loop that keeps the target it holds, alive or not
RECURSIVE EffectLoop_no_requery(_, _, _, _, _, _)
EffectLoop_no_requery(chars, actor, effects, k, target, effects_log) ==
    IF k > Len(effects) \/ ~is_alive(chars[actor])
    THEN [chars |-> chars, effects_log |-> effects_log]
    ELSE IF effects[k].effect_type \in {"damage", "status"}
         THEN IF target = 0
              THEN [chars |-> chars, effects_log |-> effects_log]
              ELSE LET r == _apply_effect(chars, actor, effects[k], target)
                   IN  EffectLoop_no_requery(r.chars, actor, effects, k + 1, target,
                                             Append(effects_log, r.result))
         ELSE LET r == _apply_effect(chars, actor, effects[k], actor)
              IN  EffectLoop_no_requery(r.chars, actor, effects, k + 1, target,
                                        Append(effects_log, r.result))

\* the for loop that goes on to the next effect when there is no target
RECURSIVE EffectLoop_skipping(_, _, _, _, _, _)
EffectLoop_skipping(chars, actor, effects, k, target, effects_log) ==
    IF k > Len(effects) \/ ~is_alive(chars[actor])
    THEN [chars |-> chars, effects_log |-> effects_log]
    ELSE IF effects[k].effect_type \in {"damage", "status"}
         THEN LET t == IF target = 0 \/ ~is_alive(chars[target])
                       THEN _get_target(chars, actor) ELSE target
              IN  IF t = 0
                  THEN EffectLoop_skipping(chars, actor, effects, k + 1, t, effects_log)
                  ELSE LET r == _apply_effect(chars, actor, effects[k], t)
                       IN  EffectLoop_skipping(r.chars, actor, effects, k + 1, t,
                                               Append(effects_log, r.result))
         ELSE LET r == _apply_effect(chars, actor, effects[k], actor)
              IN  EffectLoop_skipping(r.chars, actor, effects, k + 1, target,
                                      Append(effects_log, r.result))

\* F(v), the value v being worked out once, before F is
With(v, F(_)) == CHOOSE out \in { F(x) : x \in {v} } : TRUE

\* the for loop of _execute_skill from effect k on, holding target
RECURSIVE EffectLoop(_, _, _, _, _, _)
EffectLoop(chars, actor, effects, k, target, effects_log) ==
    IF k > Len(effects) \/ ~is_alive(chars[actor])
    THEN [chars |-> chars, effects_log |-> effects_log]
    ELSE IF effects[k].effect_type \in {"damage", "status"}
         THEN LET requeried == IF target = 0 \/ ~is_alive(chars[target])
                               THEN _get_target(chars, actor) ELSE target
                  Applied(t) ==
                      With(_apply_effect(chars, actor, effects[k], t),
                           LAMBDA r : EffectLoop(r.chars, actor, effects, k + 1, t,
                                                 Append(effects_log, r.result)))
              IN  With(requeried,
                       LAMBDA t : IF t = 0
                                  THEN [chars |-> chars, effects_log |-> effects_log]
                                  ELSE Applied(t))
         ELSE With(_apply_effect(chars, actor, effects[k], actor),
                   LAMBDA r : EffectLoop(r.chars, actor, effects, k + 1, target,
                                         Append(effects_log, r.result)))

\* skill_index is 0-based as in the source
_execute_skill(chars, actor, skill_index) ==
    LET skill == chars[actor].skills[skill_index + 1]
        r == EffectLoop(chars, actor, skill.effects, 1, _get_target(chars, actor), <<>>)
    IN  [chars |-> r.chars,
         entry |-> [actor |-> chars[actor].name,
                    skill |-> Skill_to_dict(skill),
                    effects |-> r.effects_log]]

\* the snapshot that leaves out the characters that are not alive
_snapshot_living(chars) ==
    LET living == SelectSeq(chars, is_alive)
    IN  [k \in 1..Len(living) |->
            [name |-> living[k].name, hp |-> living[k].hp, max_hp |-> living[k].max_hp,
             sp |-> living[k].sp, max_sp |-> living[k].max_sp,
             status_effects |-> [j \in 1..Len(living[k].status_effects) |->
                                    StatusEffect_to_dict(living[k].status_effects[j])]]]

_snapshot(chars) ==
    [k \in 1..Len(chars) |->
        [name |-> chars[k].name, hp |-> chars[k].hp, max_hp |-> chars[k].max_hp,
         sp |-> chars[k].sp, max_sp |-> chars[k].max_sp,
         status_effects |-> [j \in 1..Len(chars[k].status_effects) |->
                                StatusEffect_to_dict(chars[k].status_effects[j])]]]

\* the tick that decrements first and then drops what reached <= 0
TickChar_decrement_first(c) ==
    LET dec == [j \in 1..Len(c.status_effects) |->
                    [c.status_effects[j] EXCEPT !.duration = @ - 1]]
    IN  [c EXCEPT !.status_effects = SelectSeq(dec, LAMBDA se : se.duration > 0)]

\* the list of the character is replaced by the list of those kept, each then
\* decremented (SubSeq: the new list as a sequence of its own)
TickChar(c) ==
    LET kept == SelectSeq(c.status_effects, LAMBDA se : se.duration > 0)
        decremented == [j \in 1..Len(kept) |-> [kept[j] EXCEPT !.duration = @ - 1]]
    IN  [c EXCEPT !.status_effects = SubSeq(decremented, 1, Len(kept))]

_tick_status_effects(chars) == [k \in 1..Len(chars) |-> TickChar(chars[k])]

\* sorted(..., key=speed, reverse=True): stable, so equal speeds keep their order
RECURSIVE InsertBySpeed(_, _, _)
InsertBySpeed(chars, sorted, p) ==
    IF sorted = <<>> THEN <<p>>
    ELSE IF chars[Head(sorted)].speed >= chars[p].speed
         THEN <<Head(sorted)>> \o InsertBySpeed(chars, Tail(sorted), p)
         ELSE <<p>> \o sorted

RECURSIVE SortBySpeed(_, _)
SortBySpeed(chars, ps) ==
    IF ps = <<>> THEN <<>>
    ELSE InsertBySpeed(chars, SortBySpeed(chars, SubSeq(ps, 1, Len(ps) - 1)), ps[Len(ps)])

AliveAtStart(chars) ==
    SelectSeq([k \in 1..Len(chars) |-> k], LAMBDA p : is_alive(chars[p]))

\* the acting order without the sort
ActingOrder_unsorted(chars) == AliveAtStart(chars)

ActingOrder(chars) == SortBySpeed(chars, AliveAtStart(chars))

\* the outcome that looks at the enemies only for player_win
Outcome_enemies_first(chars) ==
    IF _living_enemies(chars) = <<>> THEN "player_win"
    ELSE IF ~is_alive(chars[1]) THEN "player_lose"
    ELSE "draw"

Outcome(chars) ==
    IF is_alive(chars[1]) /\ _living_enemies(chars) = <<>> THEN "player_win"
    ELSE IF ~is_alive(chars[1]) THEN "player_lose"
    ELSE "draw"

\* the while condition with the cap off by one
LoopGuard_off_by_one(chars, n) == ~_is_over(chars) /\ n <= _MAX_TURNS

\* the while condition without the cap
LoopGuard_no_cap(chars, n) == ~_is_over(chars)

LoopGuard(chars, n) == ~_is_over(chars) /\ n < _MAX_TURNS

\* the condition of the two for loops that looks at the actor only
ActorGuard_actor_only(chars, actor) == is_alive(chars[actor])

ActorGuard(chars, actor) == is_alive(chars[actor]) /\ ~_is_over(chars)

\* the number of actions that is the number of skills
NumActions_all_skills(c) == Len(c.skills)

NumActions(c) == Min(c.action_count, Len(c.skills))

-----------------------------------------------------------------------------
(* The characters the model draws the player and the roster from.  The     *)
(* skills are those of the tests' helpers (damage_skill, heal_skill,       *)
(* status_skill) and some with several effects.                            *)

damage_skill(name, coefficient) == Skill(name, <<Effect("damage", coefficient, None)>>)
heal_skill(name, coefficient) == Skill(name, <<Effect("heal", coefficient, None)>>)
status_skill(name, coefficient, status_name) ==
    Skill(name, <<Effect("status", coefficient, status_name)>>)

Attack == damage_skill("Attack", 2)
Jab == damage_skill("Jab", 1)
Feint == damage_skill("Feint", 0)
Recoil == damage_skill("Recoil", -1)
Heal == heal_skill("Heal", 2)
Poison == status_skill("Poison", 1, "poison")
Curse == status_skill("Curse", 3, None)
Combo == Skill("Combo", <<Effect("damage", 2, None), Effect("status", 3, "burn"),
                          Effect("heal", 1, None)>>)
Drain == Skill("Drain", <<Effect("heal", -2, None), Effect("damage", 3, None)>>)
Siphon == Skill("Siphon", <<Effect("heal", 2, None), Effect("damage", 2, None),
                            Effect("damage", 2, None), Effect("heal", 2, None)>>)

PlayerPool ==
    { Character("Hero", 3, 3, 1, 1, 2, 1, <<Attack>>, <<>>),
      Character("Hero", 3, 3, 3, 1, 3, 2, <<Attack, Attack, Heal>>, <<>>),
      Character("Hero", 3, 3, 1, 0, 2, 2, <<Feint>>, <<>>),
      Character("Hero", 2, 0, 1, 1, 2, 1, <<Attack>>, <<>>),
      Character("Hero", 3, 3, 1, 1, 2, 2, <<Poison, Attack>>, <<>>),
      Character("Hero", 3, 1, 2, 2, 1, 1, <<Combo>>,
                <<StatusEffect("poison", 1, 1), StatusEffect("slow", 2, 0)>>),
      Character("Hero", 2, 2, 1, 1, 1, 1, <<>>, <<>>),
      Character("Hero", 3, 2, 2, 1, 2, 3, <<Drain, Recoil>>, <<>>),
      Character("Hero", 3, 1, 2, 1, 3, 1, <<Siphon>>, <<>>) }

EnemyPool ==
    { Character("", 1, 1, 1, 0, 2, 1, <<Attack>>, <<>>),
      Character("", 3, 3, 1, 1, 1, 2, <<Attack, Heal, Poison>>, <<>>),
      Character("", 3, 3, 0, 0, 1, 1, <<Feint>>, <<>>),
      Character("", 2, 0, 1, 0, 3, 1, <<Attack>>, <<StatusEffect("poison", 1, -1)>>),
      Character("", 2, 2, 2, 0, 3, 2, <<Curse, Jab>>, <<>>) }

EnemyNames == <<"Slime", "Goblin", "Orc", "Bat">>

RECURSIVE Rosters(_)
Rosters(n) ==
    IF n = 0 THEN {<<>>}
    ELSE Rosters(n - 1) \cup
         { Append(r, [e EXCEPT !.name = EnemyNames[n]]) :
              r \in {x \in Rosters(n - 1) : Len(x) = n - 1}, e \in EnemyPool }

NoTurn == [turn |-> 0, status_at_start |-> <<>>, actions |-> <<>>]
NoCall == [op |-> "none"]

-----------------------------------------------------------------------------
(* Battle.__init__ and Battle.run *)

Init ==
    /\ player \in PlayerPool
    /\ enemies \in Rosters(MaxEnemies)
    /\ turn_logs = <<>>
    /\ turn_number = 0
    /\ turn_log = NoTurn
    /\ acting_order = <<>>
    /\ actor_pos = 0
    /\ skill_idx = 0
    /\ pc = "init"
    /\ returned = <<>>
    /\ call = NoCall

\* run that starts from an empty log
Run_resetting_log ==
    /\ pc \in {"init", "done"}
    /\ Len(returned) < MaxRuns
    /\ turn_number' = 0
    /\ turn_logs' = <<>>
    /\ pc' = "while"
    /\ UNCHANGED <<player, enemies, turn_log, acting_order, actor_pos,
                   skill_idx, returned, call>>

\* run is called (again)
Run ==
    /\ pc \in {"init", "done"}
    /\ Len(returned) < MaxRuns
    /\ turn_number' = 0
    /\ pc' = "while"
    /\ UNCHANGED <<player, enemies, turn_logs, turn_log, acting_order, actor_pos,
                   skill_idx, returned, call>>

\* the orders of the living characters by speed descending, equal speeds in any order
SpeedOrders(chars) ==
    LET ps == AliveAtStart(chars)
        n == Len(ps)
    IN  { o \in [1..n -> { ps[i] : i \in 1..n }] :
            /\ \A i \in 1..n : \A j \in 1..n : i # j => o[i] # o[j]
            /\ \A i \in 1..(n - 1) : chars[o[i]].speed >= chars[o[i + 1]].speed }

\* a turn starts with a sort that is free to order equal speeds as it likes
BeginTurn_any_tie_order ==
    /\ pc = "while"
    /\ LoopGuard(Chars, turn_number)
    /\ turn_number' = turn_number + 1
    /\ turn_log' = [turn |-> turn_number + 1,
                    status_at_start |-> _snapshot(Chars),
                    actions |-> <<>>]
    /\ \E o \in SpeedOrders(Chars) : acting_order' = o
    /\ actor_pos' = 1
    /\ skill_idx' = 0
    /\ pc' = "for"
    /\ UNCHANGED <<player, enemies, turn_logs, returned, call>>

\* the while condition holds: a turn starts
BeginTurn ==
    /\ pc = "while"
    /\ LoopGuard(Chars, turn_number)
    /\ turn_number' = turn_number + 1
    /\ turn_log' = [turn |-> turn_number + 1,
                    status_at_start |-> _snapshot(Chars),
                    actions |-> <<>>]
    /\ acting_order' = ActingOrder(Chars)
    /\ actor_pos' = 1
    /\ skill_idx' = 0
    /\ pc' = "for"
    /\ UNCHANGED <<player, enemies, turn_logs, returned, call>>

Actor == acting_order[actor_pos]

\* the actor's next skill is executed
ExecuteSkill ==
    /\ pc = "for"
    /\ actor_pos <= Len(acting_order)
    /\ ActorGuard(Chars, Actor)
    /\ skill_idx < NumActions(Chars[Actor])
    /\ LET r == _execute_skill(Chars, Actor, skill_idx)
       IN  /\ player' = r.chars[1]
           /\ enemies' = Tail(r.chars)
           /\ turn_log' = [turn_log EXCEPT !.actions = Append(@, r.entry)]
    /\ skill_idx' = skill_idx + 1
    /\ UNCHANGED <<turn_logs, turn_number, acting_order, actor_pos, pc, returned, call>>

\* the inner loop of the actor ends (range exhausted, or its break)
NextActor ==
    /\ pc = "for"
    /\ actor_pos <= Len(acting_order)
    /\ \/ ActorGuard(Chars, Actor) /\ skill_idx >= NumActions(Chars[Actor])
       \/ skill_idx > 0 /\ ~ActorGuard(Chars, Actor)
    /\ actor_pos' = actor_pos + 1
    /\ skill_idx' = 0
    /\ UNCHANGED <<player, enemies, turn_logs, turn_number, turn_log, acting_order,
                   pc, returned, call>>

\* the break of the outer loop
ForBreak ==
    /\ pc = "for"
    /\ actor_pos <= Len(acting_order)
    /\ skill_idx = 0
    /\ ~ActorGuard(Chars, Actor)
    /\ pc' = "tick"
    /\ UNCHANGED <<player, enemies, turn_logs, turn_number, turn_log, acting_order,
                   actor_pos, skill_idx, returned, call>>

\* the outer loop has gone through acting_order
ForEnd ==
    /\ pc = "for"
    /\ actor_pos > Len(acting_order)
    /\ pc' = "tick"
    /\ UNCHANGED <<player, enemies, turn_logs, turn_number, turn_log, acting_order,
                   actor_pos, skill_idx, returned, call>>

\* the end of the turn: the status tick, and the turn's record is appended
EndTurn ==
    /\ pc = "tick"
    /\ LET chars == _tick_status_effects(Chars)
       IN  /\ player' = chars[1]
           /\ enemies' = Tail(chars)
    /\ turn_logs' = Append(turn_logs, turn_log)
    /\ turn_log' = NoTurn
    /\ acting_order' = <<>>
    /\ actor_pos' = 0
    /\ skill_idx' = 0
    /\ pc' = "while"
    /\ UNCHANGED <<turn_number, returned, call>>

\* the while condition fails: the outcome is determined and run returns
Return ==
    /\ pc = "while"
    /\ ~LoopGuard(Chars, turn_number)
    /\ returned' = Append(returned, [result |-> Outcome(Chars), n_turns |-> Len(turn_logs)])
    /\ pc' = "done"
    /\ UNCHANGED <<player, enemies, turn_logs, turn_number, turn_log, acting_order,
                   actor_pos, skill_idx, call>>

Next ==
    \/ Run
    \/ BeginTurn
    \/ ExecuteSkill
    \/ NextActor
    \/ ForBreak
    \/ ForEnd
    \/ EndTurn
    \/ Return

Spec == Init /\ [][Next]_vars

-----------------------------------------------------------------------------
(* One turn of Battle.run as a function of the characters at its start:    *)
(* the loops over the actors and their skills, each from a given position  *)
(* on.                                                                     *)

\* for i in range(num_actions), from i on
RECURSIVE InnerLoop(_, _, _, _, _)
InnerLoop(chars, actor, i, num_actions, actions) ==
    IF i >= num_actions \/ ~ActorGuard(chars, actor)
    THEN [chars |-> chars, actions |-> actions]
    ELSE LET r == _execute_skill(chars, actor, i)
         IN  InnerLoop(r.chars, actor, i + 1, num_actions, Append(actions, r.entry))

\* for actor in acting_order, from position j on
RECURSIVE ForLoop(_, _, _, _)
ForLoop(chars, order, j, actions) ==
    IF j > Len(order) \/ ~ActorGuard(chars, order[j])
    THEN [chars |-> chars, actions |-> actions]
    ELSE LET r == InnerLoop(chars, order[j], 0, NumActions(chars[order[j]]), actions)
         IN  ForLoop(r.chars, order, j + 1, r.actions)

\* the body of the while loop, turn_number being n when it is entered: the
\* characters it leaves and the record it appends
WhileBody(chars, n) ==
    LET f == ForLoop(chars, ActingOrder(chars), 1, <<>>)
    IN  [chars |-> _tick_status_effects(f.chars),
         record |-> [turn |-> n + 1,
                     status_at_start |-> _snapshot(chars),
                     actions |-> f.actions]]

-----------------------------------------------------------------------------
(* Direct calls of the methods of one Character (as tests/test_models.py   *)
(* makes them): the character under test is player, there is no battle.    *)

MaxHP == 3

Amounts == (0 - MaxAmount)..MaxAmount

StatusNames == {"poison", "burn"}
Magnitudes == {1, 3}
StatusArgs ==
    { StatusEffect(n, m, d) : n \in StatusNames, m \in Magnitudes, d \in 0..StatusDuration }

UnitStatusLists ==
    { <<>>, <<StatusEffect("poison", 1, 2)>>,
      <<StatusEffect("burn", 3, 1), StatusEffect("poison", 1, 3)>> }

UnitPool ==
    { Character("Hero", m, h, 1, 1, 1, 1, <<>>, ses) :
        m \in 0..MaxHP, h \in 0..MaxHP, ses \in UnitStatusLists }

UnitInit ==
    /\ player \in {c \in UnitPool : c.hp <= c.max_hp}
    /\ enemies = <<>>
    /\ turn_logs = <<>>
    /\ turn_number = 0
    /\ turn_log = NoTurn
    /\ acting_order = <<>>
    /\ actor_pos = 0
    /\ skill_idx = 0
    /\ pc = "unit"
    /\ returned = <<>>
    /\ call = NoCall

UnitFrame ==
    UNCHANGED <<enemies, turn_logs, turn_number, turn_log, acting_order, actor_pos,
                skill_idx, pc, returned>>

CallTakeDamage ==
    /\ pc = "unit"
    /\ \E amount \in Amounts :
          LET r == take_damage(player, amount)
          IN  /\ player' = r.char
              /\ call' = [op |-> "take_damage", arg |-> amount, before |-> player,
                          ret |-> r.ret]
    /\ UnitFrame

CallHealHp ==
    /\ pc = "unit"
    /\ \E amount \in Amounts :
          LET r == heal_hp(player, amount)
          IN  /\ player' = r.char
              /\ call' = [op |-> "heal_hp", arg |-> amount, before |-> player,
                          ret |-> r.ret]
    /\ UnitFrame

CallApplyStatus ==
    /\ pc = "unit"
    /\ \E status \in StatusArgs :
          /\ player' = apply_status(player, status)
          /\ call' = [op |-> "apply_status", arg |-> status, before |-> player,
                      ret |-> None]
    /\ UnitFrame

CallTick ==
    /\ pc = "unit"
    /\ player' = _tick_status_effects(Chars)[1]
    /\ call' = [op |-> "tick", arg |-> None, before |-> player, ret |-> None]
    /\ UnitFrame

UnitNext == CallTakeDamage \/ CallHealHp \/ CallApplyStatus \/ CallTick

ModelsSpec == UnitInit /\ [][UnitNext]_vars

-----------------------------------------------------------------------------
(* Direct calls of Battle._apply_effect on a battle that has not been run: *)
(* the actor, the effect and the offensive target are arguments.  The      *)
(* battles are those of Init and the three of tests/test_battle.py that    *)
(* look at one effect (damage, heal, status).  The skills of the           *)
(* characters play no part in _apply_effect; Slime's, of coefficient 0.01, *)
(* is left out.                                                            *)

MaxCoef == 3

Coefs == (0 - MaxCoef)..MaxCoef

EffectArgs ==
    { Effect("damage", c, None) : c \in Coefs } \cup
    { Effect("heal", c, None) : c \in Coefs } \cup
    { Effect("status", c, s) : c \in {1, MaxCoef}, s \in {"poison", "burn", None} }

\* make_char of tests/test_battle.py, and player.hp = hp set afterwards
make_char(name, max_hp, hp, atk, rcv, speed, skills) ==
    Character(name, max_hp, hp, atk, rcv, speed, 1, skills, <<>>)

ScenarioBattles ==
    { <<make_char("Hero", 200, 200, 20, 15, 10, <<damage_skill("Attack", 2)>>),
        make_char("Slime", 100, 100, 1, 15, 1, <<>>)>>,
      <<make_char("Hero", 100, 50, 1, 15, 10, <<heal_skill("Heal", 2)>>),
        make_char("Enemy", 500, 500, 10, 15, 5, <<damage_skill("Attack", 2)>>)>>,
      <<make_char("Hero", 200, 200, 20, 15, 10, <<status_skill("Poison", 1, "poison")>>),
        make_char("Slime", 200, 200, 1, 15, 1, <<damage_skill("Attack", 2)>>)>> }

EffectInit ==
    /\ \/ player \in PlayerPool /\ enemies \in Rosters(MaxEnemies)
       \/ \E b \in ScenarioBattles : player = b[1] /\ enemies = Tail(b)
    /\ turn_logs = <<>>
    /\ turn_number = 0
    /\ turn_log = NoTurn
    /\ acting_order = <<>>
    /\ actor_pos = 0
    /\ skill_idx = 0
    /\ pc = "effect"
    /\ returned = <<>>
    /\ call = NoCall

CallApplyEffect ==
    /\ pc = "effect"
    /\ call = NoCall
    /\ \E actor \in 1..Len(Chars), target \in 1..Len(Chars), effect \in EffectArgs :
          LET r == _apply_effect(Chars, actor, effect, target)
          IN  /\ player' = r.chars[1]
              /\ enemies' = Tail(r.chars)
              /\ call' = [op |-> "_apply_effect", actor |-> actor, effect |-> effect,
                          target |-> target, before |-> Chars, ret |-> r.result]
    /\ UNCHANGED <<turn_logs, turn_number, turn_log, acting_order, actor_pos,
                   skill_idx, pc, returned>>

EffectSpec == EffectInit /\ [][CallApplyEffect]_vars

-----------------------------------------------------------------------------
(* Reading the log *)

\* the effect records of a sequence of turn records, as a set of
\* <<turn index, action index, effect index>>
EffectPlaces(turns) ==
    UNION { UNION { { <<k, a, e>> : e \in 1..Len(turns[k].actions[a].effects) } :
                    a \in 1..Len(turns[k].actions) } :
            k \in 1..Len(turns) }

EffectAt(turns, pl) == turns[pl[1]].actions[pl[2]].effects[pl[3]]

\* the number of actions of the character named name in a turn record
ActionsOf(rec, name) ==
    Cardinality({a \in 1..Len(rec.actions) : rec.actions[a].actor = name})

\* the effect records of a turn record in the order of execution, each with the
\* actor of its action and its place
RECURSIVE FlatFrom(_, _)
FlatFrom(actions, a) ==
    IF a > Len(actions) THEN <<>>
    ELSE [e \in 1..Len(actions[a].effects) |->
             [actor |-> actions[a].actor, a |-> a, e |-> e, r |-> actions[a].effects[e]]]
         \o FlatFrom(actions, a + 1)

FlatEffects(rec) == FlatFrom(rec.actions, 1)

\* what an effect record says it did to the hp of the character named name
HpDelta(r, name) ==
    IF r.effect_type = "damage" /\ r.target = name THEN 0 - r.damage
    ELSE IF r.effect_type = "heal" /\ r.target = name THEN r.healed
    ELSE 0

\* the hp of the character named name after the first n effect records of flat,
\* from hp0
RECURSIVE HpAfter(_, _, _, _)
HpAfter(flat, n, name, hp0) ==
    IF n = 0 THEN hp0
    ELSE HpAfter(flat, n - 1, name, hp0) + HpDelta(flat[n].r, name)

\* the hp of character k of the roster after the first n effect records of turn rec
HpInTurn(rec, n, k) ==
    HpAfter(FlatEffects(rec), n, rec.status_at_start[k].name, rec.status_at_start[k].hp)

\* the number of effect records of a turn record before those of action a
RECURSIVE Offset(_, _)
Offset(actions, a) ==
    IF a <= 1 THEN 0 ELSE Offset(actions, a - 1) + Len(actions[a - 1].effects)

\* the hp of character k just before, and just after, effect record e of action a
HpBefore(rec, a, e, k) == HpInTurn(rec, Offset(rec.actions, a) + e - 1, k)
HpJustAfter(rec, a, e, k) == HpInTurn(rec, Offset(rec.actions, a) + e, k)

\* the position of the character named name (the names of a battle differ)
PosOf(name) == CHOOSE k \in 1..Len(Chars) : Chars[k].name = name

\* the turn records to look at in a state: the turn in progress and the last
\* one appended (every record was the one in progress, and the last, before)
RecentTurns ==
    (IF pc \in {"for", "tick"} THEN {turn_log} ELSE {}) \cup
    (IF turn_logs # <<>> THEN {turn_logs[Len(turn_logs)]} ELSE {})

Offensive(r) == r.effect_type \in {"damage", "status"}

PlayerAlive == player.hp > 0
SomeEnemyAlive == \E e \in 1..Len(enemies) : enemies[e].hp > 0
LastReturn == returned[Len(returned)]

-----------------------------------------------------------------------------
(* C1: every character, at every point of run, has 0 <= hp <= max_hp. *)
HpWithinBounds ==
    \A k \in 1..Len(Chars) : Chars[k].hp >= 0 /\ Chars[k].hp <= Chars[k].max_hp

\* a run in which damage was dealt, hp was restored and a status was applied,
\* ended with somebody at 0 hp
HpWithinBoundsWitness ==
    /\ pc = "done"
    /\ \E k \in 1..Len(Chars) : Chars[k].hp = 0
    /\ \E pl \in EffectPlaces(turn_logs) :
          EffectAt(turn_logs, pl).effect_type = "damage" /\ EffectAt(turn_logs, pl).damage > 0
    /\ \E pl \in EffectPlaces(turn_logs) :
          EffectAt(turn_logs, pl).effect_type = "heal" /\ EffectAt(turn_logs, pl).healed > 0
    /\ \E pl \in EffectPlaces(turn_logs) : EffectAt(turn_logs, pl).effect_type = "status"

-----------------------------------------------------------------------------
(* C2: run always terminates, after at most 100 turns; the log it returns  *)
(* holds at most 100 turn records.                                         *)

\* the steps of a call of run in progress
RunStep ==
    BeginTurn \/ ExecuteSkill \/ NextActor \/ ForBreak \/ ForEnd \/ EndTurn \/ Return

\* run is straight-line code: a call in progress takes its next step
FairSpec == Spec /\ WF_vars(RunStep)

Running == pc \in {"while", "for", "tick"}

\* the length of the log when the current (or, at "done", the last) call began
CallBase ==
    LET before == IF pc = "done" THEN Len(returned) - 1 ELSE Len(returned)
    IN  IF before >= 1 THEN returned[before].n_turns ELSE 0

TurnsBounded ==
    /\ turn_number >= 0 /\ turn_number <= _MAX_TURNS
    /\ pc \in {"while", "done"} => Len(turn_logs) - CallBase = turn_number
    /\ pc \in {"for", "tick"} => Len(turn_logs) - CallBase = turn_number - 1
    /\ pc = "done" => LastReturn.n_turns = Len(turn_logs)
    /\ Len(returned) >= 1 => returned[1].n_turns <= _MAX_TURNS

\* C2: every call of run returns, it executes at most 100 turns and appends one
\* record for each, so that the log the first call returns holds at most 100.
RunTerminates == []TurnsBounded /\ (Running ~> (pc = "done"))

\* a first run that went to the cap with no damage ever dealt
RunTerminatesWitness ==
    /\ pc = "done"
    /\ Len(returned) = 1
    /\ turn_number = _MAX_TURNS
    /\ returned[1].n_turns = _MAX_TURNS
    /\ \A pl \in EffectPlaces(turn_logs) :
          EffectAt(turn_logs, pl).effect_type = "damage" => EffectAt(turn_logs, pl).damage = 0

-----------------------------------------------------------------------------
(* C3: the result is player_win exactly when the player is alive and no    *)
(* enemy is, player_lose exactly when the player is not alive (also when   *)
(* nobody is), draw in every other case; exactly one of the three.         *)
ResultMatchesFinalState ==
    pc = "done" =>
        LET r == LastReturn.result
        IN  /\ r \in {"player_win", "player_lose", "draw"}
            /\ (r = "player_win") <=> (PlayerAlive /\ ~SomeEnemyAlive)
            /\ (r = "player_lose") <=> ~PlayerAlive
            /\ (r = "draw") <=> (PlayerAlive /\ SomeEnemyAlive)

\* the player and every enemy of a non-empty roster are at 0 hp: player_lose
ResultMatchesFinalStateWitness ==
    /\ pc = "done"
    /\ Len(enemies) >= 1
    /\ ~PlayerAlive /\ ~SomeEnemyAlive
    /\ LastReturn.result = "player_lose"

-----------------------------------------------------------------------------
(* C4: on a first run the result is draw if and only if the loop ended at  *)
(* the turn cap with the player and an enemy alive, and the log then holds *)
(* exactly 100 records; a battle in which only zero damage is dealt is a   *)
(* draw after exactly 100 turns.                                           *)
OnlyZeroDamage(turns) ==
    \A pl \in EffectPlaces(turns) :
        EffectAt(turns, pl).effect_type = "damage" => EffectAt(turns, pl).damage = 0

\* C4: at the return of the first call, draw means the cap was reached with both
\* sides alive and 100 records; only zero damage in a started battle means draw.
DrawIffTurnCap ==
    (pc = "done" /\ Len(returned) = 1) =>
        LET r == returned[1]
        IN  /\ (r.result = "draw") <=>
                  (turn_number = _MAX_TURNS /\ PlayerAlive /\ SomeEnemyAlive)
            /\ r.n_turns = Len(turn_logs)
            /\ r.result = "draw" => Len(turn_logs) = _MAX_TURNS
            /\ (Len(turn_logs) >= 1 /\ OnlyZeroDamage(turn_logs)) =>
                  (r.result = "draw" /\ Len(turn_logs) = _MAX_TURNS)

\* a draw in which both sides dealt damage records of 0 only
DrawIffTurnCapWitness ==
    /\ pc = "done" /\ Len(returned) = 1
    /\ returned[1].result = "draw"
    /\ OnlyZeroDamage(turn_logs)
    /\ \E a \in 1..Len(turn_logs[1].actions) : turn_logs[1].actions[a].actor = player.name
    /\ \E a \in 1..Len(turn_logs[1].actions) : turn_logs[1].actions[a].actor # player.name

-----------------------------------------------------------------------------
(* C5: in every turn, every actor that is alive with the battle ongoing    *)
(* performs exactly min(action_count, number of its skills) actions.       *)
\* at the end of the for loop: the actors of the turn that are alive, the battle
\* not over, have each their min(action_count, len(skills)) actions in turn_log
ActionBudgetRespected ==
    pc = "tick" =>
        \A j \in 1..Len(acting_order) :
            LET c == Chars[acting_order[j]]
            IN  (c.hp > 0 /\ PlayerAlive /\ SomeEnemyAlive) =>
                    ActionsOf(turn_log, c.name) = Min(c.action_count, Len(c.skills))

-----------------------------------------------------------------------------
(* C6: a second call of run after the first has completed is a no-op,      *)
(* whatever the first outcome: no turn, no change of hp or status effects, *)
(* no record appended, the same result and turns returned.                 *)
NoOpStep ==
    /\ player' = player
    /\ enemies' = enemies
    /\ turn_logs' = turn_logs
    /\ pc' # "for"
    /\ Len(returned') > Len(returned) => returned'[Len(returned')] = returned[1]

\* C6: every step after the first return changes nothing and starts no turn,
\* and a later return equals the first.
SecondRunIsNoOp == [][Len(returned) >= 1 => NoOpStep]_vars

\* C6 as amended: a second call of run after a first call that returned
\* player_win or player_lose is a no-op.
SecondRunIsNoOpAfterWinOrLose ==
    [][(Len(returned) >= 1 /\ returned[1].result # "draw") => NoOpStep]_vars

\* the second call has returned after a player_win with a log of some turns
SecondRunIsNoOpWitness ==
    /\ pc = "done"
    /\ Len(returned) = 2
    /\ returned[1].result = "player_win"
    /\ returned[2] = returned[1]
    /\ Len(turn_logs) >= 1

-----------------------------------------------------------------------------
(* C7: a status effect is removed as soon as its duration reaches <= 0:    *)
(* right after every end-of-turn tick, and so in the status_at_start of    *)
(* every turn after the first, nobody holds one with duration <= 0.        *)
NoExpiredStatusHeld ==
    /\ (pc = "while" /\ turn_number >= 1) =>
          \A k \in 1..Len(Chars) : \A j \in 1..Len(Chars[k].status_effects) :
              Chars[k].status_effects[j].duration > 0
    /\ \A t \in 2..Len(turn_logs) :
          \A k \in 1..Len(turn_logs[t].status_at_start) :
              \A j \in 1..Len(turn_logs[t].status_at_start[k].status_effects) :
                  turn_logs[t].status_at_start[k].status_effects[j].duration > 0

-----------------------------------------------------------------------------
(* C8: a status effect applied by a skill and not applied again is         *)
(* decremented by three end-of-turn ticks (3 -> 2 -> 1 -> 0), is never     *)
(* negative, and is removed by the fourth, its holder alive or dead: each  *)
(* tick first drops what has duration <= 0, then decrements the rest by 1. *)

\* the durations of the status effects named s in a snapshot entry
DurationsOf(entry, s) ==
    { entry.status_effects[j].duration :
        j \in { i \in 1..Len(entry.status_effects) : entry.status_effects[i].name = s } }

NamesOf(entry) == { entry.status_effects[j].name : j \in 1..Len(entry.status_effects) }

\* the names of the status effects that the actions of a turn record applied to
\* the character named name
AppliedTo(rec, name) ==
    { EffectAt(<<rec>>, pl).status_name :
        pl \in { q \in EffectPlaces(<<rec>>) :
                    /\ EffectAt(<<rec>>, q).effect_type = "status"
                    /\ EffectAt(<<rec>>, q).target = name } }

\* the state of the characters at the start of turn t of the log; for the turn
\* after the last recorded one, the turn in progress or else the current state
StateAtStart(t) ==
    IF t <= Len(turn_logs) THEN turn_logs[t].status_at_start
    ELSE IF pc \in {"for", "tick"} THEN turn_log.status_at_start
    ELSE _snapshot(Chars)

\* what the tick at the end of turn t did to every status effect
TickRule(t) ==
    \A k \in 1..Len(Chars) :
        LET before == StateAtStart(t)[k]
            after == StateAtStart(t + 1)[k]
            applied == AppliedTo(turn_logs[t], before.name)
        IN  \A s \in NamesOf(before) \cup NamesOf(after) \cup applied :
                DurationsOf(after, s) =
                    IF s \in applied THEN {StatusDuration - 1}
                    ELSE { d - 1 : d \in { x \in DurationsOf(before, s) : x > 0 } }

\* a status applied in turn t and not in the three turns after it
ChainRule(t) ==
    \A k \in 1..Len(Chars) :
        LET name == StateAtStart(t)[k].name
        IN  \A s \in AppliedTo(turn_logs[t], name) :
                (\A u \in (t + 1)..(t + 3) : s \notin AppliedTo(turn_logs[u], name)) =>
                    /\ DurationsOf(StateAtStart(t + 1)[k], s) = {2}
                    /\ DurationsOf(StateAtStart(t + 2)[k], s) = {1}
                    /\ DurationsOf(StateAtStart(t + 3)[k], s) = {0}
                    /\ DurationsOf(StateAtStart(t + 4)[k], s) = {}

\* a status applied in turn t is never negative afterwards
NeverNegative(t) ==
    \A k \in 1..Len(Chars) :
        \A s \in AppliedTo(turn_logs[t], StateAtStart(t)[k].name) :
            \A u \in (t + 1)..(Len(turn_logs) + 1) :
                \A d \in DurationsOf(StateAtStart(u)[k], s) : d >= 0

-----------------------------------------------------------------------------
(* C9: the status effects of a character are keyed by name: apply_status   *)
(* with a name that is present overwrites that entry's magnitude and       *)
(* duration and leaves the count and the other entries as they were, with  *)
(* a name that is not present it adds exactly one entry.                   *)
UniqueNames(ses) ==
    \A i \in 1..Len(ses) : \A j \in 1..Len(ses) : i # j => ses[i].name # ses[j].name

\* C9: checked on every state reached by calls of apply_status and ticks from a
\* list of unique names.
StatusKeyedByName ==
    /\ UniqueNames(player.status_effects)
    /\ call.op = "apply_status" =>
          LET b == call.before.status_effects
              a == player.status_effects
              st == call.arg
          IN  /\ player = [call.before EXCEPT !.status_effects = a]
              /\ IF \E j \in 1..Len(b) : b[j].name = st.name
                 THEN /\ Len(a) = Len(b)
                      /\ \A j \in 1..Len(b) :
                            IF b[j].name = st.name
                            THEN /\ a[j].name = st.name
                                 /\ a[j].magnitude = st.magnitude
                                 /\ a[j].duration = st.duration
                            ELSE a[j] = b[j]
                 ELSE /\ Len(a) = Len(b) + 1
                      /\ a[Len(a)] = st
                      /\ \A j \in 1..Len(b) : a[j] = b[j]

\* the second of two entries was refreshed with another magnitude and duration
StatusKeyedByNameWitness ==
    /\ call.op = "apply_status"
    /\ Len(call.before.status_effects) = 2
    /\ call.before.status_effects[2].name = call.arg.name
    /\ call.before.status_effects[2].magnitude # call.arg.magnitude
    /\ call.before.status_effects[2].duration # call.arg.duration
    /\ Len(player.status_effects) = 2
    /\ player.status_effects[2] = call.arg

-----------------------------------------------------------------------------
(* C10: for every amount < 0, take_damage and heal_hp return 0 and leave   *)
(* hp as it was; neither fails for any integer amount.                     *)
NegativeAmountIsNoOp ==
    call.op \in {"take_damage", "heal_hp"} =>
        /\ call.ret \in Nat
        /\ call.arg < 0 => (call.ret = 0 /\ player.hp = call.before.hp)
        /\ player = [call.before EXCEPT !.hp = player.hp]

\* take_damage(amount < 0) on a character that has hp to lose and to gain
NegativeAmountIsNoOpWitness ==
    /\ call.op = "take_damage"
    /\ call.arg < 0
    /\ call.before.hp > 0 /\ call.before.hp < call.before.max_hp
    /\ call.ret = 0
    /\ player.hp = call.before.hp

-----------------------------------------------------------------------------
(* C11: a damage effect of coefficient c from an actor against a target of *)
(* hp h removes exactly d = min(max(0, trunc(actor.atk * c)), h) hp from   *)
(* the target, records damage = d and target = the target's name, and      *)
(* changes nobody else's hp; atk 20, coefficient 1.0 against 100 hp        *)
(* records 20.                                                             *)

Abs(n) == IF n >= 0 THEN n ELSE 0 - n

\* q is n / CoefDen truncated toward zero
IsTruncOf(q, n) ==
    IF n >= 0 THEN q * CoefDen <= n /\ n < (q + 1) * CoefDen
    ELSE q * CoefDen >= n /\ n > (q - 1) * CoefDen

\* the integers among which the truncation of n / CoefDen lies
TruncRange(n) == (0 - Abs(n))..Abs(n)

DamageEffectExact ==
    (call.op = "_apply_effect" /\ call.effect.effect_type = "damage") =>
        LET b == call.before
            t == call.target
            raw == b[call.actor].atk * call.effect.coefficient
        IN  /\ \E q \in TruncRange(raw) :
                  /\ IsTruncOf(q, raw)
                  /\ LET d == Min(Max(0, q), b[t].hp)
                     IN  /\ Chars[t].hp = b[t].hp - d
                         /\ call.ret.damage = d
                         /\ call.ret.target = b[t].name
                         /\ \A k \in 1..Len(Chars) : k # t => Chars[k].hp = b[k].hp
            /\ (b[call.actor].atk = 20 /\ call.effect.coefficient = CoefDen /\ b[t].hp = 100)
                  => call.ret.damage = 20

\* atk 3 with coefficient 1.5 (4.5, truncated to 4) against a target of 3 hp:
\* 3 are removed and recorded
DamageEffectExactWitness ==
    /\ call.op = "_apply_effect" /\ call.effect.effect_type = "damage"
    /\ call.actor = 1 /\ call.target = 2
    /\ call.before[1].atk * call.effect.coefficient = 9
    /\ call.before[2].hp = 3
    /\ call.ret.damage = 3
    /\ enemies[1].hp = 0
    /\ player.hp = call.before[1].hp

-----------------------------------------------------------------------------
(* C12: a heal effect of coefficient c heals the actor itself and nobody   *)
(* else: the actor's hp rises by exactly                                   *)
(* min(max(0, trunc(actor.rcv * c)), max_hp - hp), healed is that amount   *)
(* and target the actor's name, and the hp of every other character, the   *)
(* opposing target included, is unchanged; rcv 15, coefficient 1.0, hp 50  *)
(* of 100 records healed 15.                                               *)
HealEffectOnActorOnly ==
    (call.op = "_apply_effect" /\ call.effect.effect_type = "heal") =>
        LET b == call.before
            a == call.actor
            raw == b[a].rcv * call.effect.coefficient
        IN  /\ \E q \in TruncRange(raw) :
                  /\ IsTruncOf(q, raw)
                  /\ LET g == Min(Max(0, q), b[a].max_hp - b[a].hp)
                     IN  /\ Chars[a].hp = b[a].hp + g
                         /\ call.ret.healed = g
                         /\ call.ret.target = b[a].name
                         /\ \A k \in 1..Len(Chars) : k # a => Chars[k].hp = b[k].hp
            /\ (b[a].rcv = 15 /\ call.effect.coefficient = CoefDen
                /\ b[a].hp = 50 /\ b[a].max_hp = 100)
                  => call.ret.healed = 15

\* the player at 1 of 3 hp heals 2 (rcv 2, coefficient 1.5, clamped) while the
\* opposing target, below its max_hp too, keeps its hp
HealEffectOnActorOnlyWitness ==
    /\ call.op = "_apply_effect" /\ call.effect.effect_type = "heal"
    /\ call.actor = 1 /\ call.target = 2
    /\ call.before[1].hp = 1 /\ call.before[1].max_hp = 3
    /\ call.before[1].rcv * call.effect.coefficient = 6
    /\ call.before[2].hp < call.before[2].max_hp
    /\ call.ret.healed = 2
    /\ player.hp = 3
    /\ enemies[1].hp = call.before[2].hp

-----------------------------------------------------------------------------
(* C13: a status effect of coefficient c and status_name s leaves the      *)
(* target, right after the application, with exactly one status effect     *)
(* named s, of magnitude c and duration 3 (an entry named s is refreshed,  *)
(* no second one is added), changes nobody's hp, and records               *)
(* status_name = s, magnitude = c and the target's name.                   *)
StatusEffectApplied ==
    (call.op = "_apply_effect" /\ call.effect.effect_type = "status"
     /\ call.effect.status_name # None) =>
        LET b == call.before
            t == call.target
            s == call.effect.status_name
            c == call.effect.coefficient
            ses == Chars[t].status_effects
            named == { j \in 1..Len(ses) : ses[j].name = s }
            had == \E j \in 1..Len(b[t].status_effects) : b[t].status_effects[j].name = s
        IN  /\ Cardinality(named) = 1
            /\ \A j \in named : ses[j].magnitude = c /\ ses[j].duration = 3
            /\ Len(ses) = Len(b[t].status_effects) + (IF had THEN 0 ELSE 1)
            /\ \A k \in 1..Len(Chars) : Chars[k].hp = b[k].hp
            /\ call.ret.status_name = s
            /\ call.ret.magnitude = c
            /\ call.ret.target = b[t].name

\* poison of magnitude 1.5 on a target that held poison of magnitude 0.5 with 1
\* turn left, and another status: poison is refreshed in place
StatusEffectAppliedWitness ==
    /\ call.op = "_apply_effect" /\ call.effect.effect_type = "status"
    /\ call.effect.status_name = "poison" /\ call.effect.coefficient = 3
    /\ call.target = 1
    /\ call.before[1].status_effects =
          <<StatusEffect("poison", 1, 1), StatusEffect("slow", 2, 0)>>
    /\ player.status_effects =
          <<StatusEffect("poison", 3, 3), StatusEffect("slow", 2, 0)>>

-----------------------------------------------------------------------------
(* C14: within one run the k-th turn record has turn = k, and its          *)
(* status_at_start is the state of all characters (player first, then the  *)
(* roster in order) before any action of the turn: the initial state for   *)
(* turn 1, the state left by the actions and the tick of the turn before   *)
(* for the others; nothing alters a recorded snapshot afterwards.          *)

\* the length of the log when the run that appended record i was called
RunBase(i) ==
    LET earlier == { returned[j].n_turns : j \in { x \in 1..Len(returned) :
                                                     returned[x].n_turns < i } }
    IN  IF earlier = {} THEN 0 ELSE CHOOSE m \in earlier : \A n \in earlier : n <= m

TurnNumbering ==
    /\ \A i \in 1..Len(turn_logs) : turn_logs[i].turn = i - RunBase(i)
    /\ pc \in {"for", "tick"} =>
          turn_log.turn = Len(turn_logs) + 1 - RunBase(Len(turn_logs) + 1)

\* snap describes the characters chars, field by field and in their order
SnapshotOf(snap, chars) ==
    /\ Len(snap) = Len(chars)
    /\ \A k \in 1..Len(chars) :
          /\ snap[k].name = chars[k].name
          /\ snap[k].hp = chars[k].hp /\ snap[k].max_hp = chars[k].max_hp
          /\ snap[k].sp = chars[k].sp /\ snap[k].max_sp = chars[k].max_sp
          /\ Len(snap[k].status_effects) = Len(chars[k].status_effects)
          /\ \A j \in 1..Len(chars[k].status_effects) :
                /\ snap[k].status_effects[j].name = chars[k].status_effects[j].name
                /\ snap[k].status_effects[j].magnitude = chars[k].status_effects[j].magnitude
                /\ snap[k].status_effects[j].duration = chars[k].status_effects[j].duration

\* the hp in the snapshot of the turn after t is the hp at the start of t moved
\* by the effect records of t
HpCarriedOver(t) ==
    \A k \in 1..Len(Chars) :
        HpInTurn(turn_logs[t], Len(FlatEffects(turn_logs[t])), k) = StateAtStart(t + 1)[k].hp

SnapshotStep ==
    /\ (pc = "while" /\ pc' = "for") =>
          /\ SnapshotOf(turn_log'.status_at_start, Chars)
          /\ turn_log'.actions = <<>>
    /\ (pc \in {"for", "tick"} /\ pc' \in {"for", "tick"}) =>
          turn_log'.status_at_start = turn_log.status_at_start
    /\ (pc = "tick" /\ pc' = "while") => turn_logs' = Append(turn_logs, turn_log)
    /\ \A i \in 1..Len(turn_logs) : Len(turn_logs') >= i /\ turn_logs'[i] = turn_logs[i]
    /\ pc \in {"init", "while", "done"} => (player' = player /\ enemies' = enemies)

\* C14: the records are numbered 1, 2, ... from the call of run that appended
\* them; the snapshot of a turn is taken of the state as it is when the turn
\* starts, which nothing has changed since the tick of the turn before (or since
\* construction); no step changes a snapshot once taken.  The hp is followed
\* through the last recorded turn: the turns before it are the last ones of
\* earlier states.
SnapshotsAtTurnStart ==
    /\ [](TurnNumbering /\ (Len(turn_logs) >= 1 => HpCarriedOver(Len(turn_logs))))
    /\ [][SnapshotStep]_vars

\* two turns recorded in which hp and status effects moved: the snapshots of
\* turns 1 and 2 differ from each other and from the final state
SnapshotsAtTurnStartWitness ==
    /\ pc = "done"
    /\ Len(turn_logs) >= 2
    /\ turn_logs[1].turn = 1 /\ turn_logs[2].turn = 2
    /\ \E k \in 1..Len(Chars) :
          /\ turn_logs[1].status_at_start[k].hp # turn_logs[2].status_at_start[k].hp
          /\ turn_logs[2].status_at_start[k].hp # Chars[k].hp
    /\ \E k \in 1..Len(Chars) :
          /\ turn_logs[1].status_at_start[k].status_effects #
                turn_logs[2].status_at_start[k].status_effects
          /\ turn_logs[2].status_at_start[k].status_effects # <<>>

-----------------------------------------------------------------------------
(* C15: battle resolution is deterministic: two runs from identical inputs *)
(* (player, roster in order, skills, initial hp and status effects)        *)
(* produce identical sequences of turn records and the same result.        *)

\* the characters as they were when the snapshot snap was taken: what a run
\* changes of a character is its hp and its status effects, and the snapshot
\* holds both
CharsAt(snap) ==
    LET chars == [k \in 1..Len(Chars) |->
                     [Chars[k] EXCEPT !.hp = snap[k].hp,
                                      !.status_effects = snap[k].status_effects]]
    IN  SubSeq(chars, 1, Len(Chars))

\* the turn that has just ended was due, and its record and the characters it
\* left are those that the body of the loop, as a function, gives for the
\* characters at its start
TurnIsFunctionOfStart ==
    (pc = "while" /\ turn_number >= 1) =>
        LET rec == turn_logs[Len(turn_logs)]
            start == CharsAt(rec.status_at_start)
            t == WhileBody(start, turn_number - 1)
        IN  /\ LoopGuard(start, turn_number - 1)
            /\ rec = t.record
            /\ Chars = t.chars

\* a step of a run is the only one the state allows: a turn starts exactly when
\* the loop condition holds, run returns exactly when it does not, and what it
\* returns is the outcome of the characters as they are
StepIsFunctionOfState ==
    /\ (pc = "while" /\ pc' = "for") => LoopGuard(Chars, turn_number)
    /\ (pc = "while" /\ pc' = "done") =>
          /\ ~LoopGuard(Chars, turn_number)
          /\ returned' = Append(returned, [result |-> Outcome(Chars),
                                           n_turns |-> Len(turn_logs)])
          /\ turn_logs' = turn_logs /\ player' = player /\ enemies' = enemies

\* C15: turn by turn a run is a function of its input: every turn leaves
\* exactly the record and the characters that the characters at its start
\* determine, and whether another turn follows and what is returned are
\* determined by the characters then; so two runs from the same input give the
\* same log and the same result.
RunIsFunctionOfInput == []TurnIsFunctionOfStart /\ [][StepIsFunctionOfState]_vars

\* a win after two turns or more in which the player and an enemy of the same
\* speed both acted in turn 1
RunIsFunctionOfInputWitness ==
    /\ pc = "done" /\ Len(returned) = 1
    /\ returned[1].result = "player_win"
    /\ Len(turn_logs) >= 2
    /\ \E e \in 1..Len(enemies) :
          /\ enemies[e].speed = player.speed
          /\ ActionsOf(turn_logs[1], enemies[e].name) >= 1
          /\ ActionsOf(turn_logs[1], player.name) >= 1

-----------------------------------------------------------------------------
(* C16: within a turn a character of the acting order that has died        *)
(* earlier in the turn is skipped, and every character later in the order  *)
(* that is alive still takes its actions in that turn while the battle is  *)
(* not over (order [player, A, B]: the player kills A, B is alive, B       *)
(* acts).                                                                  *)
\* when the for loop has ended with the battle not over: every living actor
\* that comes in the order after one that died has its actions in the turn
LaterLivingActorsStillAct ==
    (pc = "tick" /\ PlayerAlive /\ SomeEnemyAlive) =>
        \A i \in 1..Len(acting_order) : \A j \in (i + 1)..Len(acting_order) :
            (Chars[acting_order[i]].hp = 0 /\ Chars[acting_order[j]].hp > 0) =>
                ActionsOf(turn_log, Chars[acting_order[j]].name) =
                    NumActions(Chars[acting_order[j]])

-----------------------------------------------------------------------------
(* C17: in every turn the actions are logged in acting order: the          *)
(* characters alive at the start of the turn by speed descending, equal    *)
(* speeds player first and then in roster order; the actions of one actor  *)
(* are contiguous, and no actor comes before one of higher speed.          *)

\* character p acts before character q
ActsBefore(p, q) ==
    \/ Chars[p].speed > Chars[q].speed
    \/ Chars[p].speed = Chars[q].speed /\ p < q

LoggedInOrder(rec) ==
    LET acts == rec.actions
        P(a) == PosOf(acts[a].actor)
    IN  /\ \A a \in 1..Len(acts) : rec.status_at_start[P(a)].hp > 0
        /\ \A a \in 1..Len(acts) : \A b \in (a + 1)..Len(acts) :
              P(a) # P(b) => ActsBefore(P(a), P(b))
        /\ \A a \in 1..Len(acts) : \A b \in (a + 1)..Len(acts) :
              P(a) = P(b) => \A m \in a..b : P(m) = P(a)

ActionsInActingOrder == \A rec \in RecentTurns : LoggedInOrder(rec)

\* a turn in which three characters acted: an enemy faster than the player
\* with two actions, then the player, then an enemy of the player's speed
ActionsInActingOrderWitness ==
    /\ pc = "tick"
    /\ Len(enemies) = 2
    /\ Len(turn_log.actions) = 4
    /\ turn_log.actions[1].actor = enemies[2].name
    /\ turn_log.actions[2].actor = enemies[2].name
    /\ turn_log.actions[3].actor = player.name
    /\ turn_log.actions[4].actor = enemies[1].name
    /\ enemies[2].speed > player.speed
    /\ enemies[1].speed = player.speed

-----------------------------------------------------------------------------
(* C18: every damage or status effect of the player hits the first enemy   *)
(* of the roster that is alive when the target is resolved, every one of   *)
(* an enemy hits the player; so no enemy's hp or status list is changed by *)
(* an enemy's damage or status effect, and the player's hp is never        *)
(* reduced by the player's own action.                                     *)

\* the first enemy of the roster alive just before effect record e of action a,
\* 0 if none
FirstLivingEnemyBefore(rec, a, e) ==
    LET living == { k \in 2..Len(Chars) : HpBefore(rec, a, e, k) > 0 }
    IN  IF living = {} THEN 0 ELSE CHOOSE k \in living : \A m \in living : k <= m

TargetsByRule(rec) ==
    \A a \in 1..Len(rec.actions) : \A e \in 1..Len(rec.actions[a].effects) :
        LET r == rec.actions[a].effects[e]
        IN  Offensive(r) =>
                IF rec.actions[a].actor = player.name
                THEN /\ FirstLivingEnemyBefore(rec, a, e) # 0
                     /\ r.target = Chars[FirstLivingEnemyBefore(rec, a, e)].name
                ELSE r.target = player.name

\* what the execution of a skill leaves alone
TargetingStep ==
    (pc = "for" /\ turn_log' # turn_log) =>
        IF Actor = 1
        THEN /\ player'.hp >= player.hp
             /\ player'.status_effects = player.status_effects
        ELSE \A e \in 1..Len(enemies) :
                /\ enemies'[e].status_effects = enemies[e].status_effects
                /\ e + 1 # Actor => enemies'[e].hp = enemies[e].hp
                /\ e + 1 = Actor => enemies'[e].hp >= enemies[e].hp

\* C18: in every turn record each damage and status record of the player names
\* the first enemy of the roster alive at that moment and each one of an enemy
\* names the player; a skill of an enemy changes no enemy's status list and no
\* hp of an enemy but, upwards, its own; a skill of the player does not lower
\* the player's hp nor change the player's status list.
TargetingRule ==
    /\ [](\A rec \in RecentTurns : TargetsByRule(rec))
    /\ [][TargetingStep]_vars

\* in one turn the player damaged the second enemy of the roster, the first
\* being dead and the second alive before and after, and that enemy then hit
\* the player
TargetingRuleWitness ==
    /\ pc = "tick"
    /\ Len(enemies) = 2
    /\ enemies[1].hp = 0 /\ enemies[2].hp > 0 /\ player.hp > 0
    /\ \E a \in 1..Len(turn_log.actions) : \E b \in (a + 1)..Len(turn_log.actions) :
          /\ turn_log.actions[a].actor = player.name
          /\ \E e \in 1..Len(turn_log.actions[a].effects) :
                /\ turn_log.actions[a].effects[e].effect_type = "damage"
                /\ turn_log.actions[a].effects[e].target = enemies[2].name
                /\ turn_log.actions[a].effects[e].damage > 0
          /\ turn_log.actions[b].actor = enemies[2].name
          /\ \E e \in 1..Len(turn_log.actions[b].effects) :
                /\ turn_log.actions[b].effects[e].effect_type = "damage"
                /\ turn_log.actions[b].effects[e].target = player.name
                /\ turn_log.actions[b].effects[e].damage > 0

-----------------------------------------------------------------------------
(* C19: when an effect of the player's skill kills its target and another  *)
(* enemy is alive, the next damage or status effect of the same skill      *)
(* execution is applied to the next living enemy of the roster; while the  *)
(* held target is alive the remaining damage and status effects of the     *)
(* skill hit it; no damage or status effect is applied to a character that *)
(* is dead when it is applied.                                             *)

\* the next damage or status effect of the skill of an action after its effect
\* e, 0 if none
NextOffensive(act, e) ==
    LET later == { x \in (e + 1)..Len(act.skill.effects) :
                      act.skill.effects[x].effect_type \in {"damage", "status"} }
    IN  IF later = {} THEN 0 ELSE CHOOSE x \in later : \A y \in later : x <= y

RetargetsByRule(rec) ==
    \A a \in 1..Len(rec.actions) :
        LET act == rec.actions[a]
        IN  \A e \in 1..Len(act.effects) :
                Offensive(act.effects[e]) =>
                    LET t == PosOf(act.effects[e].target)
                        n == NextOffensive(act, e)
                    IN  /\ HpBefore(rec, a, e, t) > 0
                        /\ (n # 0 /\ HpJustAfter(rec, a, e, t) > 0) =>
                              /\ n <= Len(act.effects)
                              /\ act.effects[n].target = act.effects[e].target
                        /\ (n # 0 /\ HpJustAfter(rec, a, e, t) = 0
                            /\ act.actor = player.name
                            /\ \E k \in 2..Len(Chars) : HpJustAfter(rec, a, e, k) > 0) =>
                              /\ n <= Len(act.effects)
                              /\ PosOf(act.effects[n].target) > t
                              /\ PosOf(act.effects[n].target) =
                                    FirstLivingEnemyBefore(rec, a, n)

\* C19, read in the log of every turn.
RetargetsMidSkill == \A rec \in RecentTurns : RetargetsByRule(rec)

\* one execution of a skill of the player: a damage effect took the first enemy
\* to 0 hp and the next damage effect of the skill hit the second
RetargetsMidSkillWitness ==
    /\ pc \in {"for", "tick"}
    /\ Len(enemies) = 2
    /\ \E a \in 1..Len(turn_log.actions) :
          LET act == turn_log.actions[a]
          IN  /\ act.actor = player.name
              /\ \E e \in 1..Len(act.effects) : \E n \in (e + 1)..Len(act.effects) :
                    /\ act.effects[e].effect_type = "damage"
                    /\ act.effects[e].target = enemies[1].name
                    /\ HpBefore(turn_log, a, e, 2) > 0
                    /\ HpJustAfter(turn_log, a, e, 2) = 0
                    /\ act.effects[n].effect_type = "damage"
                    /\ act.effects[n].target = enemies[2].name
                    /\ act.effects[n].damage > 0

-----------------------------------------------------------------------------
(* C20: if a damage or status effect of a skill finds no living target,    *)
(* the execution of the skill stops there without error: no later effect   *)
(* of the skill is applied, heals included; the action record lists the    *)
(* effects applied before, in order; the heals before the first targetless *)
(* effect are applied.                                                     *)

\* there is a valid target for the actor named name just before effect record
\* e of action a
HasTargetBefore(rec, a, e, name) ==
    IF name = player.name THEN FirstLivingEnemyBefore(rec, a, e) # 0
    ELSE HpBefore(rec, a, e, 1) > 0

StopsByRule(rec) ==
    \A a \in 1..Len(rec.actions) :
        LET act == rec.actions[a]
            done == Len(act.effects)
        IN  /\ done <= Len(act.skill.effects)
            /\ \A e \in 1..done :
                  /\ act.effects[e].effect_type = act.skill.effects[e].effect_type
                  /\ act.effects[e].coefficient = act.skill.effects[e].coefficient
                  /\ Offensive(act.effects[e]) => HasTargetBefore(rec, a, e, act.actor)
            /\ done < Len(act.skill.effects) =>
                  /\ act.skill.effects[done + 1].effect_type \in {"damage", "status"}
                  /\ ~HasTargetBefore(rec, a, done + 1, act.actor)

\* the execution of a skill changes the hp as its effect records say, and
\* nothing else of the hp: an effect that is not in the record was not applied
RecordedOnly(rec) ==
    \A k \in 1..Len(Chars) :
        HpInTurn(rec, Len(FlatEffects(rec)), k) =
            (IF rec = turn_log /\ pc \in {"for", "tick"} THEN Chars[k].hp
             ELSE StateAtStart(Len(turn_logs) + 1)[k].hp)

\* C20: the effect records of an action are the effects of its skill from the
\* first on, up to the end or up to the first damage or status effect that has
\* no living target; the hp moves by what is recorded, and by nothing after.
StopsAtFirstTargetless == \A rec \in RecentTurns : StopsByRule(rec) /\ RecordedOnly(rec)

\* a skill heal, damage, damage, heal of the player: the heal was applied, the
\* damage killed the only enemy, the second damage found nobody, and the heal
\* after it was not applied to the player, who is below max_hp
StopsAtFirstTargetlessWitness ==
    /\ pc = "tick"
    /\ Len(enemies) = 1 /\ enemies[1].hp = 0
    /\ player.hp > 0 /\ player.hp < player.max_hp
    /\ \E a \in 1..Len(turn_log.actions) :
          LET act == turn_log.actions[a]
          IN  /\ act.actor = player.name
              /\ Len(act.skill.effects) = 4
              /\ act.skill.effects[4].effect_type = "heal"
              /\ Len(act.effects) = 2
              /\ act.effects[1].effect_type = "heal" /\ act.effects[1].healed > 0
              /\ act.effects[2].effect_type = "damage" /\ act.effects[2].damage > 0
              /\ HpJustAfter(turn_log, a, 2, 1) = player.hp

-----------------------------------------------------------------------------
(* C21: no turn starts and no skill is executed once the battle is over:   *)
(* the snapshot of every turn record shows the player and an enemy alive,  *)
(* every logged action started with its actor, the player and an enemy     *)
(* alive, and after the action that kills the player or the last enemy no  *)
(* action is logged in that turn and no turn record is appended.           *)

\* the battle is over with the hp that the first n effect records of turn rec leave
OverInTurn(rec, n) ==
    \/ HpInTurn(rec, n, 1) <= 0
    \/ \A k \in 2..Len(rec.status_at_start) : HpInTurn(rec, n, k) <= 0

\* the turn of rec started, and each of its actions started, with the battle not
\* over and the actor alive; an action that ended the battle is the last of rec
StartedWhileOngoing(rec) ==
    /\ ~OverInTurn(rec, 0)
    /\ \A a \in 1..Len(rec.actions) :
          LET n == Offset(rec.actions, a)
          IN  /\ HpInTurn(rec, n, PosOf(rec.actions[a].actor)) > 0
              /\ ~OverInTurn(rec, n)
              /\ OverInTurn(rec, n + Len(rec.actions[a].effects)) => a = Len(rec.actions)

\* the last record appended ended with the battle over: no turn is in progress
NoTurnAfterTheEnd ==
    (turn_logs # <<>> /\ OverInTurn(turn_logs[Len(turn_logs)],
                                    Len(FlatEffects(turn_logs[Len(turn_logs)])))) =>
        pc \in {"while", "done"}

\* a step that starts a turn or logs an action is taken with the battle not over,
\* the one that logs an action with its actor alive
StartsWhileOngoing ==
    /\ (pc = "while" /\ pc' = "for") => (PlayerAlive /\ SomeEnemyAlive)
    /\ (pc = "for" /\ turn_log'.actions # turn_log.actions) =>
          (Chars[Actor].hp > 0 /\ PlayerAlive /\ SomeEnemyAlive)
    /\ ~(PlayerAlive /\ SomeEnemyAlive) =>
          (turn_log'.actions = turn_log.actions \/ pc' = "while")

\* C21, read in the log of every turn and in every step.
NothingStartsWhenOver ==
    /\ [](NoTurnAfterTheEnd /\ \A rec \in RecentTurns : StartedWhileOngoing(rec))
    /\ [][StartsWhileOngoing]_vars

\* an enemy killed the player in a turn in which a slower living enemy with a
\* skill to use had not acted yet: that enemy has no action in the turn, which
\* is the last one recorded
NothingStartsWhenOverWitness ==
    /\ pc = "done" /\ Len(returned) = 1
    /\ ~PlayerAlive
    /\ Len(turn_logs) >= 1
    /\ LET rec == turn_logs[Len(turn_logs)]
       IN  /\ rec.actions # <<>>
           /\ rec.actions[Len(rec.actions)].actor # player.name
           /\ \E e \in 1..Len(enemies) :
                 /\ enemies[e].hp > 0
                 /\ NumActions(enemies[e]) >= 1
                 /\ ActionsOf(rec, enemies[e].name) = 0

-----------------------------------------------------------------------------
(* C22: within one turn the actions logged for an actor use its skills at  *)
(* indices 0, 1, 2, ... in this order, from index 0, with no gap or        *)
(* repeat, and a skill at an index >= action_count is never executed.      *)

\* the actions of the character named name in a turn record, in their order
ActionsBy(rec, name) == SelectSeq(rec.actions, LAMBDA act : act.actor = name)

\* the j-th action of a character in rec shows its j-th skill, and there are no
\* more of them than action_count and than it has skills
SkillsFromIndexZero(rec) ==
    /\ \A a \in 1..Len(rec.actions) :
          \E k \in 1..Len(Chars) : rec.actions[a].actor = Chars[k].name
    /\ \A k \in 1..Len(Chars) :
          LET mine == ActionsBy(rec, Chars[k].name)
          IN  /\ Len(mine) <= Chars[k].action_count
              /\ Len(mine) <= Len(Chars[k].skills)
              /\ \A j \in 1..Len(mine) :
                    mine[j].skill = Skill_to_dict(Chars[k].skills[j])

\* the step that logs an action logs one, of the skill at the index that is the
\* number of actions the actor has in the turn so far, below action_count
NextSkillIndex ==
    (pc = "for" /\ turn_log'.actions # turn_log.actions) =>
        /\ skill_idx = ActionsOf(turn_log, Chars[Actor].name)
        /\ skill_idx < Chars[Actor].action_count
        /\ skill_idx < Len(Chars[Actor].skills)
        /\ Len(turn_log'.actions) = Len(turn_log.actions) + 1
        /\ SubSeq(turn_log'.actions, 1, Len(turn_log.actions)) = turn_log.actions
        /\ LET entry == turn_log'.actions[Len(turn_log'.actions)]
           IN  /\ entry.actor = Chars[Actor].name
               /\ entry.skill = Skill_to_dict(Chars[Actor].skills[skill_idx + 1])
        /\ skill_idx' = skill_idx + 1

\* C22, read in the log of every turn and in every step that logs an action.
SkillsInIndexOrder ==
    /\ [](\A rec \in RecentTurns : SkillsFromIndexZero(rec))
    /\ [][NextSkillIndex]_vars

\* an enemy with three skills and action_count 2 used its first and its second
\* skill in a turn after which the battle went on, and in the turn after it
\* again; the player used two different skills in that turn
SkillsInIndexOrderWitness ==
    /\ pc = "while"
    /\ Len(turn_logs) >= 2
    /\ PlayerAlive /\ SomeEnemyAlive
    /\ \E e \in 1..Len(enemies) :
          /\ Len(enemies[e].skills) = 3 /\ enemies[e].action_count = 2
          /\ \A t \in {Len(turn_logs) - 1, Len(turn_logs)} :
                LET mine == ActionsBy(turn_logs[t], enemies[e].name)
                IN  /\ Len(mine) = 2
                    /\ mine[1].skill.name = enemies[e].skills[1].name
                    /\ mine[2].skill.name = enemies[e].skills[2].name
    /\ LET mine == ActionsBy(turn_logs[Len(turn_logs)], player.name)
       IN  Len(mine) = 2 /\ mine[1].skill # mine[2].skill

-----------------------------------------------------------------------------
(* C23: run changes only hp and status_effects of the characters: sp,      *)
(* max_hp, max_sp, atk, rcv, speed, action_count and the skill list (names,*)
(* effects, their order and coefficients) of every character stay as they  *)
(* were at the start, and so does the order of the roster of enemies.      *)

\* the character as it would be with the hp and the status effects of d
WithHpAndStatusOf(c, d) == [c EXCEPT !.hp = d.hp, !.status_effects = d.status_effects]

\* a step leaves every character in its place, whatever it does to its hp and
\* status effects
OnlyHpAndStatusChange ==
    /\ Len(enemies') = Len(enemies)
    /\ \A k \in 1..Len(Chars) :
          /\ Chars'[k].name = Chars[k].name
          /\ Chars'[k].sp = Chars[k].sp /\ Chars'[k].max_sp = Chars[k].max_sp
          /\ Chars'[k].max_hp = Chars[k].max_hp
          /\ Chars'[k].atk = Chars[k].atk /\ Chars'[k].rcv = Chars[k].rcv
          /\ Chars'[k].speed = Chars[k].speed
          /\ Chars'[k].action_count = Chars[k].action_count
          /\ Chars'[k].skills = Chars[k].skills
          /\ Chars'[k] = WithHpAndStatusOf(Chars[k], Chars'[k])

\* every snapshot recorded shows the characters in the order they have, with the
\* sp, max_sp and max_hp they have
SnapshotsShowSameRoster ==
    \A rec \in RecentTurns :
        /\ Len(rec.status_at_start) = Len(Chars)
        /\ \A k \in 1..Len(Chars) :
              /\ rec.status_at_start[k].name = Chars[k].name
              /\ rec.status_at_start[k].sp = Chars[k].sp
              /\ rec.status_at_start[k].max_sp = Chars[k].max_sp
              /\ rec.status_at_start[k].max_hp = Chars[k].max_hp

\* C23: no step of a run changes a field of a character other than hp and
\* status_effects, nor the place of a character in the roster; so in every state
\* these are as at the start, as every snapshot taken since shows.
RunChangesOnlyHpAndStatus ==
    []SnapshotsShowSameRoster /\ [][OnlyHpAndStatusChange]_vars

\* a run with two enemies in which damage was dealt, hp was restored and a
\* status was applied: hp and status effects of the player and of an enemy are no
\* longer those of the first snapshot
RunChangesOnlyHpAndStatusWitness ==
    /\ pc = "done" /\ Len(returned) = 1
    /\ Len(enemies) = 2
    /\ Len(turn_logs) >= 1
    /\ \E pl \in EffectPlaces(turn_logs) :
          EffectAt(turn_logs, pl).effect_type = "heal" /\ EffectAt(turn_logs, pl).healed > 0
    /\ \E k \in 1..Len(Chars) :
          /\ turn_logs[1].status_at_start[k].hp # Chars[k].hp
          /\ turn_logs[1].status_at_start[k].status_effects # Chars[k].status_effects

-----------------------------------------------------------------------------
(* C24: death is permanent within a run: a character whose hp is 0 keeps   *)
(* hp 0 in every later state (a heal is only ever resolved for an actor    *)
(* that is alive), and the set of living characters never grows from one   *)
(* turn-start snapshot to the next.                                        *)

\* the characters a snapshot shows alive
LivingIn(snap) == { k \in 1..Len(snap) : snap[k].hp > 0 }

\* a step leaves a character that is not alive as it is in hp
DeadStayDead ==
    \A k \in 1..Len(Chars) : Chars[k].hp <= 0 => Chars'[k].hp = Chars[k].hp

\* every heal record of rec is of an actor that had hp > 0 when the effect was
\* resolved, and heals that actor
HealsOfTheLiving(rec) ==
    \A a \in 1..Len(rec.actions) : \A e \in 1..Len(rec.actions[a].effects) :
        rec.actions[a].effects[e].effect_type = "heal" =>
            /\ rec.actions[a].effects[e].target = rec.actions[a].actor
            /\ HpBefore(rec, a, e, PosOf(rec.actions[a].actor)) > 0

\* nobody is alive in a snapshot who was not in the one before, nor now who was
\* not alive in the last snapshot
LivingNeverGrows ==
    /\ \A t \in 2..Len(turn_logs) :
          LivingIn(turn_logs[t].status_at_start) \subseteq
              LivingIn(turn_logs[t - 1].status_at_start)
    /\ \A rec \in RecentTurns : LivingIn(Chars) \subseteq LivingIn(rec.status_at_start)
    /\ (pc \in {"for", "tick"} /\ turn_logs # <<>>) =>
          LivingIn(turn_log.status_at_start) \subseteq
              LivingIn(turn_logs[Len(turn_logs)].status_at_start)

\* C24, in every step, in the heal records of every turn and from snapshot to
\* snapshot.
DeathIsPermanent ==
    /\ [](LivingNeverGrows /\ \A rec \in RecentTurns : HealsOfTheLiving(rec))
    /\ [][DeadStayDead]_vars

\* an enemy that has a heal among its skills was alive at the start of turn 1
\* and killed in it; the battle went on for a turn or more, whose snapshots and
\* the final state show it at 0 hp
DeathIsPermanentWitness ==
    /\ pc = "done" /\ Len(returned) = 1
    /\ Len(turn_logs) >= 2
    /\ \E e \in 1..Len(enemies) :
          /\ \E i \in 1..Len(enemies[e].skills) :
                \E j \in 1..Len(enemies[e].skills[i].effects) :
                    enemies[e].skills[i].effects[j].effect_type = "heal"
          /\ turn_logs[1].status_at_start[e + 1].hp > 0
          /\ turn_logs[2].status_at_start[e + 1].hp = 0
          /\ turn_logs[Len(turn_logs)].status_at_start[e + 1].hp = 0
          /\ enemies[e].hp = 0
          /\ enemies[e].hp < enemies[e].max_hp

-----------------------------------------------------------------------------
(* C25: a simultaneous mutual wipe is unreachable by play: when run starts *)
(* with the player and an enemy alive, the player and all the enemies are  *)
(* in no state dead at once; player_lose then leaves an enemy alive and    *)
(* player_win the player.                                                  *)

\* the first snapshot of the log, or of the first turn while it is in progress
FirstSnapshot ==
    IF turn_logs # <<>> THEN turn_logs[1].status_at_start ELSE turn_log.status_at_start

\* the battle had the player and an enemy alive when run was first called: no
\* step before the first turn changes a character, and the first snapshot is of
\* the characters as they were then
StartedWithBothSides ==
    IF turn_logs # <<>> \/ pc \in {"for", "tick"}
    THEN 1 \in LivingIn(FirstSnapshot) /\ LivingIn(FirstSnapshot) # {1}
    ELSE PlayerAlive /\ SomeEnemyAlive

\* somebody of one side or the other has hp left after each effect record of rec
NoWipeInTurn(rec) ==
    \A n \in 0..Len(FlatEffects(rec)) :
        \E k \in 1..Len(rec.status_at_start) : HpInTurn(rec, n, k) > 0

NoMutualWipeState ==
    StartedWithBothSides =>
        /\ PlayerAlive \/ SomeEnemyAlive
        /\ \A rec \in RecentTurns : NoWipeInTurn(rec)
        /\ pc = "done" =>
              /\ LastReturn.result = "player_lose" => SomeEnemyAlive
              /\ LastReturn.result = "player_win" => PlayerAlive

\* no step takes the last of the living
NoWipingStep == (PlayerAlive \/ SomeEnemyAlive) => (PlayerAlive' \/ SomeEnemyAlive')

\* C25, in every state and every step, and after every effect record of a turn.
NoMutualWipe == []NoMutualWipeState /\ [][NoWipingStep]_vars

\* both sides lost somebody: the player killed an enemy in one turn and was
\* killed by another enemy in a later one; the result is player_lose
NoMutualWipeWitness ==
    /\ pc = "done" /\ Len(returned) = 1
    /\ StartedWithBothSides
    /\ Len(turn_logs) >= 2
    /\ LastReturn.result = "player_lose"
    /\ ~PlayerAlive /\ SomeEnemyAlive
    /\ \E e \in 1..Len(enemies) :
          /\ enemies[e].hp = 0
          /\ turn_logs[1].status_at_start[e + 1].hp > 0

====
